---------------------------- MODULE Spec2Model ----------------------------
(***************************************************************************)
(* PartnerAlarmClock: a two-party commitment contract.  Two players stake  *)
(* value, confirm wake-ups inside a submission window on the alarm days,   *)
(* and withdraw() redistributes the stakes by the missed deadlines.        *)
(*                                                                         *)
(* The contract (init, start, addToBalance, submitConfirmation, withdraw,  *)
(* getPenaltyAmount) is translated from the Solidity source.  The          *)
(* AlarmSchedule library it delegates to is not part of the sources; its   *)
(* operators (scheduleStart, recordConfirmation, missedCount and the       *)
(* occurrence arithmetic) follow the specification's sections 4.1/4.2.     *)
(*                                                                         *)
(* The client's new-alarm form (its stores, isReady and createAlarm) is    *)
(* translated from the TypeScript source; it runs next to the contract     *)
(* and is explored on its own in SpecClient.                               *)
(*                                                                         *)
(* Every transaction is atomic (a revert undoes it), so each handler is    *)
(* one action.  The order of the effects inside withdraw() is kept in      *)
(* `transfers`, which records, for each external transfer of the last      *)
(* withdraw, the storage the recipient could observe while it ran.         *)
(***************************************************************************)
EXTENDS Integers, Sequences, FiniteSets

(* ------------------------------ bounds -------------------------------- *)
\* largest value of the (scaled) unsigned word: arithmetic above it reverts
UintMax == 8
\* deposits are explored up to this amount
MaxDeposit == 2
\* largest msg.value sent with one call
MaxValue == 2
\* largest msg.value sent with addToBalance
MaxTopUp == 1
\* largest small missedAlarmPenalty chosen at creation
MaxPenalty == 1
\* last instant of block.timestamp that is explored
MaxTime == 4
\* ticks per calendar day (the 86400 seconds of a day, scaled)
DayLen == 2
\* StatusChanged events after which no further withdraw is explored
MaxEvents == 2

\* weekdays are numbered 1..7
DaysPerWeek == 7

Addresses == {"a1", "a2", "a3"}
NoTime == -1
OK == "OK"

Days == 0..((MaxTime \div DayLen) + 1)

VARIABLES
    status,               \* BaseCommitment.status
    player1, player2,     \* the two players (player1 = tx.origin of init)
    betAmount,            \* msg.value of init
    missedAlarmPenalty,
    alarmTime, alarmActiveDays, submissionWindow, timezoneOffset,
    depositAmount,        \* players[a].depositAmount
    startTime,            \* players[a].schedule: start instant or NoTime
    confirmedOccurrences, \* players[a].schedule: confirmed occurrence indices
    balance,              \* address(this).balance
    transfers,            \* the transfers of the last successful withdraw
    statusChangedEvents,  \* number of StatusChanged events emitted
    now,                  \* block.timestamp
    bundledParams,        \* the client's form: the stores of the new alarm
    hub,                  \* the client's hub store: TRUE once a hub is known
    requests              \* the creation requests the client sent to the hub

pattern == <<alarmTime, alarmActiveDays, submissionWindow, timezoneOffset>>
params == <<player1, player2, betAmount, missedAlarmPenalty, pattern>>
schedules == <<startTime, confirmedOccurrences>>
money == <<depositAmount, balance, transfers>>
contract == <<status, params, schedules, money, statusChangedEvents, now>>
client == <<bundledParams, hub, requests>>
vars == <<contract, client>>

Min(a, b) == IF a < b THEN a ELSE b

(* ------------- AlarmSchedule (library, from the specification) -------- *)
Weekday(d) == (d % DaysPerWeek) + 1

\* the absolute close and open instants of the occurrence anchored at day d
occurrenceClose(d) == d * DayLen + alarmTime - timezoneOffset
occurrenceOpen(d) == occurrenceClose(d) - submissionWindow

\* the occurrences of a started schedule: active weekdays closing at or
\* after the start time; an unstarted schedule has none
occurrencesSince(a) ==
    {d \in Days : /\ startTime[a] # NoTime
                  /\ Weekday(d) \in alarmActiveDays
                  /\ occurrenceClose(d) >= startTime[a]}

\* the occurrences whose window contains the instant at
openOccurrences(a, at) ==
    {d \in occurrencesSince(a) : occurrenceOpen(d) <= at /\ at <= occurrenceClose(d)}

\* variant: an occurrence counts as missed as soon as its window has opened
missedCount_FromOpen(a, at) ==
    Cardinality({d \in occurrencesSince(a) :
                    occurrenceOpen(d) < at /\ d \notin confirmedOccurrences[a]})

\* variant: an occurrence counts as missed from its close instant on
missedCount_AtClose(a, at) ==
    Cardinality({d \in occurrencesSince(a) :
                    occurrenceClose(d) <= at /\ d \notin confirmedOccurrences[a]})

\* elapsed occurrences (close < at) without a recorded confirmation
missedCount(a, at) ==
    Cardinality({d \in occurrencesSince(a) :
                    occurrenceClose(d) < at /\ d \notin confirmedOccurrences[a]})

confirmedCount(a) == Cardinality(confirmedOccurrences[a])

scheduleStartErr(st, a) == IF st[a] # NoTime THEN "AlreadyStarted" ELSE OK
scheduleStart(st, a, at) == [st EXCEPT ![a] = at]

recordConfirmationErr(a, at) ==
    IF openOccurrences(a, at) = {} THEN "NoOpenWindow" ELSE OK
\* variant: a confirmation is credited to every occurrence up to the open one
recordConfirmation_Credits(a, at) ==
    [confirmedOccurrences EXCEPT ![a] =
        @ \cup {d \in occurrencesSince(a) : occurrenceOpen(d) <= at}]

recordConfirmation(a, at) ==
    [confirmedOccurrences EXCEPT ![a] = @ \cup openOccurrences(a, at)]

(* --------------------------- PartnerAlarmClock ------------------------ *)
\* the creation parameters that are explored: every day or three days a
\* week, the alarm at the last tick of the day
ActiveDaySets == {1..DaysPerWeek, {1, 3, 5}}
AlarmTimes == {DayLen - 1}
\* missedAlarmPenalty is any unsigned word: small ones and the largest
Penalties == (1..MaxPenalty) \cup {UintMax}

Init ==
    /\ status = "INACTIVE"
    /\ player1 = "a1"
    /\ player2 \in {"a1", "a2"}
    /\ betAmount \in 1..MaxValue
    /\ missedAlarmPenalty \in Penalties
    /\ alarmTime \in AlarmTimes
    /\ alarmActiveDays \in ActiveDaySets
    /\ submissionWindow \in 1..(DayLen - 1)
    /\ timezoneOffset = 0
    /\ depositAmount = [a \in Addresses |-> IF a = player1 THEN betAmount ELSE 0]
    /\ startTime = [a \in Addresses |-> NoTime]
    /\ confirmedOccurrences = [a \in Addresses |-> {}]
    /\ balance = betAmount
    /\ transfers = <<>>
    /\ statusChangedEvents = 0
    /\ now = 0

\* variant: the modifier lets every caller through
onlyPlayer_Anyone(sender) == TRUE

onlyPlayer(sender) == sender = player1 \/ sender = player2

\* a rejected call reverts: it leaves no trace in the contract
Rejected == UNCHANGED vars

(* start(): lines 85-101 *)
\* variant: the stake sent is not compared with betAmount
startErr_NoStakeCheck(sender, value) ==
    IF status # "INACTIVE" THEN "ALREADY_STARTED"
    ELSE IF sender # player2 THEN "ONLY_PLAYER_2_CAN_START"
    ELSE IF scheduleStartErr(startTime, player1) # OK
        THEN scheduleStartErr(startTime, player1)
    ELSE IF scheduleStartErr(scheduleStart(startTime, player1, now), player2) # OK
        THEN scheduleStartErr(scheduleStart(startTime, player1, now), player2)
    ELSE IF depositAmount[player2] + value > UintMax THEN "PANIC_OVERFLOW"
    ELSE OK

startErr(sender, value) ==
    IF status # "INACTIVE" THEN "ALREADY_STARTED"
    ELSE IF value < betAmount THEN "INSUFFICIENT_FUNDS_SENT"
    ELSE IF sender # player2 THEN "ONLY_PLAYER_2_CAN_START"
    ELSE IF scheduleStartErr(startTime, player1) # OK
        THEN scheduleStartErr(startTime, player1)
    ELSE IF scheduleStartErr(scheduleStart(startTime, player1, now), player2) # OK
        THEN scheduleStartErr(scheduleStart(startTime, player1, now), player2)
    ELSE IF depositAmount[player2] + value > UintMax THEN "PANIC_OVERFLOW"
    ELSE OK

\* variant: only player2's schedule is started
startOk_OneSchedule(sender, value) ==
    /\ startErr(sender, value) = OK
    /\ depositAmount[player2] + value <= MaxDeposit
    /\ startTime' = scheduleStart(startTime, player2, now)
    /\ depositAmount' = [depositAmount EXCEPT ![player2] = @ + value]
    /\ balance' = balance + value
    /\ status' = "ACTIVE"
    /\ UNCHANGED <<params, confirmedOccurrences, transfers,
                   statusChangedEvents, now>>

\* variant: the counterparty is credited the bet, not the value sent
startOk_RecordsBet(sender, value) ==
    /\ startErr(sender, value) = OK
    /\ depositAmount[player2] + value <= MaxDeposit
    /\ startTime' = scheduleStart(scheduleStart(startTime, player1, now), player2, now)
    /\ depositAmount' = [depositAmount EXCEPT ![player2] = @ + betAmount]
    /\ balance' = balance + value
    /\ status' = "ACTIVE"
    /\ UNCHANGED <<params, confirmedOccurrences, transfers,
                   statusChangedEvents, now>>

startOk(sender, value) ==
    /\ startErr(sender, value) = OK
    /\ depositAmount[player2] + value <= MaxDeposit
    /\ startTime' = scheduleStart(scheduleStart(startTime, player1, now), player2, now)
    /\ depositAmount' = [depositAmount EXCEPT ![player2] = @ + value]
    /\ balance' = balance + value
    /\ status' = "ACTIVE"
    /\ UNCHANGED <<params, confirmedOccurrences, transfers,
                   statusChangedEvents, now>>

startRevert(sender, value) ==
    /\ startErr(sender, value) # OK
    /\ Rejected

(* addToBalance(player): lines 103-107 *)
addToBalanceErr(sender, player, value) ==
    IF ~onlyPlayer(sender) THEN "ONLY_PLAYER_ACTION"
    ELSE IF status # "ACTIVE" THEN "NOT_ACTIVE"
    ELSE IF ~(player = player1 \/ player = player2) THEN "INVALID_PLAYER"
    ELSE IF depositAmount[sender] + value > UintMax THEN "PANIC_OVERFLOW"
    ELSE OK

addToBalanceOk(sender, player, value) ==
    /\ addToBalanceErr(sender, player, value) = OK
    /\ depositAmount[sender] + value <= MaxDeposit
    /\ depositAmount' = [depositAmount EXCEPT ![sender] = @ + value]
    /\ balance' = balance + value
    /\ UNCHANGED <<status, params, schedules, transfers,
                   statusChangedEvents, now>>

addToBalanceRevert(sender, player, value) ==
    /\ addToBalanceErr(sender, player, value) # OK
    /\ Rejected

(* submitConfirmation(): lines 113-116 *)
submitConfirmationErr(sender) ==
    IF ~onlyPlayer(sender) THEN "ONLY_PLAYER_ACTION"
    ELSE recordConfirmationErr(sender, now)

submitConfirmationOk(sender) ==
    /\ submitConfirmationErr(sender) = OK
    /\ confirmedOccurrences' = recordConfirmation(sender, now)
    /\ UNCHANGED <<status, params, startTime, money, statusChangedEvents, now>>

(* the views: lines 118-124 *)
missedDeadlines(player) == missedCount(player, now)
numConfirmations(player) == confirmedCount(player)

submitConfirmationRevert(sender) ==
    /\ submitConfirmationErr(sender) # OK
    /\ Rejected

(* getPenaltyAmount(player): lines 163-170 *)
penaltyVal(player) == missedCount(player, now) * missedAlarmPenalty

\* variant: the penalty is not capped at the deposit
getPenaltyAmount_Uncapped(player) == penaltyVal(player)

getPenaltyAmount(player) ==
    IF penaltyVal(player) > depositAmount[player]
        THEN depositAmount[player]
        ELSE penaltyVal(player)

(* withdraw(): lines 135-157 *)
otherPlayerOf(sender) == IF sender = player1 THEN player2 ELSE player1

senderPenalty(sender) ==
    IF status = "ACTIVE" THEN getPenaltyAmount(sender) ELSE 0
otherPlayerPenalty(sender) ==
    IF status = "ACTIVE" THEN getPenaltyAmount(otherPlayerOf(sender)) ELSE 0

\* variant: the other player's own penalty is not deducted
otherPlayerWithdrawAmount_NoOffset(sender) ==
    depositAmount[otherPlayerOf(sender)] + senderPenalty(sender)

\* variant: the two penalties change sides
otherPlayerWithdrawAmount_Swapped(sender) ==
    depositAmount[otherPlayerOf(sender)] + otherPlayerPenalty(sender)
        - senderPenalty(sender)

otherPlayerWithdrawAmount(sender) ==
    depositAmount[otherPlayerOf(sender)] + senderPenalty(sender)
        - otherPlayerPenalty(sender)

\* variant: the sender is paid the own deposit less the own penalty
senderWithdrawAmount_OwnNet(sender) ==
    depositAmount[sender] - senderPenalty(sender)

\* address(this).balance once the other player has been paid
senderWithdrawAmount(sender) == balance - otherPlayerWithdrawAmount(sender)

\* variant: withdraw is rejected unless the commitment is ACTIVE
withdrawErr_RequiresActive(sender, accepted) ==
    IF ~onlyPlayer(sender) THEN "ONLY_PLAYER_ACTION"
    ELSE IF status # "ACTIVE" THEN "NOT_ACTIVE"
    ELSE IF penaltyVal(sender) > UintMax THEN "PANIC_OVERFLOW"
    ELSE IF penaltyVal(otherPlayerOf(sender)) > UintMax THEN "PANIC_OVERFLOW"
    ELSE IF depositAmount[otherPlayerOf(sender)] + senderPenalty(sender) > UintMax
        THEN "PANIC_OVERFLOW"
    ELSE IF ~accepted THEN "TRANSFER_FAILED"
    ELSE OK

\* accepted: both recipients take the payment (a recipient that is a
\* contract may refuse it, which reverts the transfer and the call)
withdrawErr(sender, accepted) ==
    IF ~onlyPlayer(sender) THEN "ONLY_PLAYER_ACTION"
    ELSE IF status = "ACTIVE" /\ penaltyVal(sender) > UintMax THEN "PANIC_OVERFLOW"
    ELSE IF status = "ACTIVE" /\ penaltyVal(otherPlayerOf(sender)) > UintMax
        THEN "PANIC_OVERFLOW"
    ELSE IF depositAmount[otherPlayerOf(sender)] + senderPenalty(sender) > UintMax
        THEN "PANIC_OVERFLOW"
    ELSE IF otherPlayerWithdrawAmount(sender) < 0 THEN "PANIC_OVERFLOW"
    ELSE IF otherPlayerWithdrawAmount(sender) > balance THEN "TRANSFER_FAILED"
    ELSE IF ~accepted THEN "TRANSFER_FAILED"
    ELSE OK

\* the storage as the recipient of a transfer sees it while it is paid
Transfer(to, amount, seenStatus, seenDeposits) ==
    [to |-> to, amount |-> amount, status |-> seenStatus,
     stored |-> seenDeposits[player1] + seenDeposits[player2]]

withdrawOk(sender, accepted) ==
    LET zeroed == [depositAmount EXCEPT ![sender] = 0,
                                        ![otherPlayerOf(sender)] = 0]
    IN  /\ withdrawErr(sender, accepted) = OK
        /\ statusChangedEvents < MaxEvents
        \* lines 149-150
        /\ depositAmount' = zeroed
        \* lines 152-153: both transfers run before the status is written
        /\ transfers' = << Transfer(otherPlayerOf(sender),
                                    otherPlayerWithdrawAmount(sender), status, zeroed),
                           Transfer(sender, senderWithdrawAmount(sender), status, zeroed) >>
        /\ balance' = balance - otherPlayerWithdrawAmount(sender)
                              - senderWithdrawAmount(sender)
        \* lines 155-156
        /\ statusChangedEvents' = statusChangedEvents + 1
        /\ status' = "CANCELLED"
        /\ UNCHANGED <<params, schedules, now>>

withdrawRevert(sender, accepted) ==
    /\ withdrawErr(sender, accepted) # OK
    /\ Rejected

(* the passage of block.timestamp *)
Tick ==
    /\ now < MaxTime
    /\ now' = now + 1
    /\ UNCHANGED <<status, params, schedules, money, statusChangedEvents>>

(* ------------------ the client's new-alarm form (stores) -------------- *)
\* Addresses as the client holds them, as text: "" is no text (or no
\* connected account); "0xA1" and "0xa1" are two spellings of one address,
\* the first with the checksum capitals the wallet reports.
AddressTexts == {"", "0xA1", "0xa1", "0xB2"}
Accounts == {"", "0xA1"}

\* the values the form's inputs are explored with; a time string "hh:mm"
\* is the pair <<hh, mm>> and the empty string is <<>>
DayLists == {<<>>, <<7, 1>>, <<0, 1>>}
TimeStrings == {<<>>, <<7, 30>>}
Amounts == {0, 1}
Windows == {0, 1}
TimezoneOffsets == {-13, -12, 12, 13}
\* creation requests after which no further createAlarm is explored
MaxRequests == 1

\* the stores as the module creates them (lines 24-33); the connected
\* account, the hub and the local timezone come from the environment
FormLoaded(acct, tz, h) ==
    /\ bundledParams = [account |-> acct,
                        otherPlayer |-> "",
                        alarmDays |-> <<>>,
                        alarmTime |-> <<>>,
                        deposit |-> 0,
                        missedAlarmPenalty |-> 0,
                        submissionWindow |-> 0,
                        timezoneOffset |-> tz,
                        timezoneOffsetConfirmed |-> FALSE]
    /\ hub = h
    /\ requests = <<>>

\* lines 61-75; !== compares the two texts
isReady(p) ==
    /\ p.account # ""
    /\ p.submissionWindow > 0
    /\ p.otherPlayer # p.account
    /\ Len(p.alarmDays) > 0
    /\ \A i \in 1..Len(p.alarmDays) : p.alarmDays[i] >= 1 /\ p.alarmDays[i] <= 7
    /\ Len(p.alarmTime) > 0
    /\ p.deposit > 0
    /\ p.missedAlarmPenalty > 0
    /\ p.timezoneOffsetConfirmed
    /\ p.timezoneOffset >= -12
    /\ p.timezoneOffset <= 12

\* lines 102-112
timeStringToSeconds(timeString) == timeString[1] * 3600 + timeString[2] * 60

\* viem's parseEther: ether to wei, the factor 10^18 scaled to 1000
parseEther(ether) == ether * 1000

\* Array.prototype.sort() without a comparator: ascending for the one-digit
\* numbers of the form
RECURSIVE sort(_)
sort(s) ==
    IF Len(s) <= 1 THEN s
    ELSE LET m == CHOOSE i \in 1..Len(s) : \A j \in 1..Len(s) : s[i] <= s[j]
         IN  <<s[m]>> \o sort(SubSeq(s, 1, m - 1) \o SubSeq(s, m + 1, Len(s)))

\* a store of the form is set
setStore(store, value) ==
    /\ bundledParams' = [bundledParams EXCEPT ![store] = value]
    /\ UNCHANGED <<hub, requests, contract>>

setHub(value) ==
    /\ hub' = value
    /\ UNCHANGED <<bundledParams, requests, contract>>

\* lines 80-98: the function the createAlarm store holds is called and
\* sends the request; sort() sorts the array of the alarmDays store in place
createAlarmOk ==
    /\ isReady(bundledParams) /\ hub
    /\ Len(requests) < MaxRequests
    /\ requests' = Append(requests,
          [commitmentType |-> "PartnerAlarmClock",
           sender |-> bundledParams.account,
           alarmTime |-> timeStringToSeconds(bundledParams.alarmTime),
           alarmdays |-> sort(bundledParams.alarmDays),
           missedAlarmPenalty |-> parseEther(bundledParams.missedAlarmPenalty),
           submissionWindow |-> bundledParams.submissionWindow,
           timezoneOffset |-> bundledParams.timezoneOffset * 60 * 60,
           otherPlayer |-> bundledParams.otherPlayer,
           value |-> parseEther(bundledParams.deposit)])
    /\ bundledParams' = [bundledParams EXCEPT !.alarmDays = sort(@)]
    /\ UNCHANGED <<hub, contract>>

\* lines 81-83: not ready or no hub: an error is logged, nothing is sent
createAlarmSkip ==
    /\ ~(isReady(bundledParams) /\ hub)
    /\ UNCHANGED vars

ClientNext ==
    \/ \E v \in Accounts : setStore("account", v)
    \/ \E v \in AddressTexts : setStore("otherPlayer", v)
    \/ \E v \in DayLists : setStore("alarmDays", v)
    \/ \E v \in TimeStrings : setStore("alarmTime", v)
    \/ \E v \in Amounts : setStore("deposit", v)
    \/ \E v \in Amounts : setStore("missedAlarmPenalty", v)
    \/ \E v \in Windows : setStore("submissionWindow", v)
    \/ \E v \in TimezoneOffsets : setStore("timezoneOffset", v)
    \/ \E v \in BOOLEAN : setStore("timezoneOffsetConfirmed", v)
    \/ \E v \in BOOLEAN : setHub(v)
    \/ createAlarmOk
    \/ createAlarmSkip

\* the form next to one commitment that nobody touches
ClientInit ==
    /\ \E acct \in Accounts, tz \in TimezoneOffsets, h \in BOOLEAN :
            FormLoaded(acct, tz, h)
    /\ Init
    /\ player2 = "a2" /\ betAmount = 1 /\ missedAlarmPenalty = 1
    /\ alarmActiveDays = 1..DaysPerWeek /\ submissionWindow = 1

SpecClient == ClientInit /\ [][ClientNext]_vars

(* ------------------------------ the contract -------------------------- *)
Values == 0..MaxValue
TopUps == 0..MaxTopUp

\* the transactions of one commitment; the client's form takes no part
Next ==
    \/ \E s \in Addresses, v \in Values : startOk(s, v) /\ UNCHANGED client
    \/ \E s \in Addresses, v \in Values : startRevert(s, v)
    \/ \E s \in Addresses, p \in Addresses, v \in TopUps :
            addToBalanceOk(s, p, v) /\ UNCHANGED client
    \/ \E s \in Addresses, p \in Addresses, v \in TopUps : addToBalanceRevert(s, p, v)
    \/ \E s \in Addresses : submitConfirmationOk(s) /\ UNCHANGED client
    \/ \E s \in Addresses : submitConfirmationRevert(s)
    \/ \E s \in Addresses, acc \in BOOLEAN : withdrawOk(s, acc) /\ UNCHANGED client
    \/ \E s \in Addresses, acc \in BOOLEAN : withdrawRevert(s, acc)
    \/ Tick /\ UNCHANGED client

\* one commitment after init, next to a form nobody has opened
ContractInit == Init /\ FormLoaded("", 12, FALSE)

Spec == ContractInit /\ [][Next]_vars

(* ------------------------------ properties ---------------------------- *)
Players == {player1, player2}

\* the step in which an ACTIVE commitment is settled
Settles == status = "ACTIVE" /\ status' = "CANCELLED"

\* the reference penalty of section 4.4: min(balance, penaltyPerMiss x missed)
ReferencePenalty(a) ==
    Min(depositAmount[a], missedAlarmPenalty * missedCount(a, now))

\* what the transfers tr paid to address a
PaidTo(tr, a) ==
    (IF Len(tr) >= 1 /\ tr[1].to = a THEN tr[1].amount ELSE 0)
  + (IF Len(tr) >= 2 /\ tr[2].to = a THEN tr[2].amount ELSE 0)

\* C1: zero-sum settlement.  Settling an ACTIVE commitment pays the caller
\* and the other participant, together, exactly the sum of the two stored
\* balances held just before, and leaves nothing in the contract.
C1_ZeroSumSettlement ==
    [][Settles =>
        LET other == transfers'[1].to
            caller == transfers'[2].to
        IN  /\ {caller, other} = Players
            /\ caller # other
            /\ transfers'[1].amount + transfers'[2].amount
                 = depositAmount[caller] + depositAmount[other]
            /\ balance' = 0]_vars

\* a settlement that moved a penalty: both were paid, by different amounts
C1_Witness ==
    /\ status = "CANCELLED"
    /\ Len(transfers) = 2
    /\ transfers[1].status = "ACTIVE"
    /\ transfers[1].amount > 0
    /\ transfers[2].amount > 0
    /\ transfers[1].amount # transfers[2].amount

\* C2: penalty capping.  In every reachable state the penalty of each
\* participant is min(balance, penaltyPerMiss x missedCount) - exactly the
\* balance when the product exceeds it - and no stored balance and no
\* amount paid out is negative.
C2_PenaltyCapped ==
    /\ \A a \in Players :
          /\ getPenaltyAmount(a) = ReferencePenalty(a)
          /\ missedAlarmPenalty * missedCount(a, now) > depositAmount[a]
                => getPenaltyAmount(a) = depositAmount[a]
          /\ depositAmount[a] >= 0
    /\ \A i \in 1..Len(transfers) : transfers[i].amount >= 0

\* a settlement in which the caller's penalty was capped at the balance:
\* one miss costs more than any deposit that is explored, and the caller,
\* having missed, lost the whole deposit and no more
C2_Witness ==
    /\ status = "CANCELLED"
    /\ statusChangedEvents = 1
    /\ Len(transfers) = 2
    /\ transfers[1].status = "ACTIVE"
    /\ missedAlarmPenalty > MaxDeposit
    /\ missedCount(transfers[2].to, now) >= 1
    /\ transfers[2].amount = 0
    /\ transfers[1].amount > 0

\* C3: settlement pays the reference amounts.  Settling an ACTIVE
\* commitment pays the other participant other.balance + callerPenalty -
\* otherPenalty and the caller caller.balance - callerPenalty + otherPenalty,
\* zeroes both stored balances and ends in the settled status.
C3_SettlementPayouts ==
    [][Settles =>
        LET other == transfers'[1].to
            caller == transfers'[2].to
            callerPenalty == ReferencePenalty(caller)
            otherPenalty == ReferencePenalty(other)
        IN  /\ Len(transfers') = 2
            /\ {caller, other} = Players
            /\ transfers'[1].amount
                 = depositAmount[other] + callerPenalty - otherPenalty
            /\ transfers'[2].amount
                 = depositAmount[caller] - callerPenalty + otherPenalty
            /\ depositAmount'[caller] = 0
            /\ depositAmount'[other] = 0
            /\ status' = "CANCELLED"]_vars

\* the scenario of the specification, scaled: balances 2/2, penalty 1, the
\* caller missed 2 and the other none: the caller gets 0 and the other 4
C3_Witness ==
    /\ status = "CANCELLED"
    /\ statusChangedEvents = 1
    /\ Len(transfers) = 2
    /\ transfers[1].status = "ACTIVE"
    /\ missedAlarmPenalty = 1
    /\ transfers[1].amount = 4
    /\ transfers[2].amount = 0
    /\ missedCount(transfers[2].to, now) = 2
    /\ missedCount(transfers[1].to, now) = 0

\* C4 (as claimed): the settled status is terminal.  Once a commitment of
\* two distinct players is settled, no call changes the status, the
\* balances, the start times or the confirmation records, and no second
\* settlement is emitted.
C4_SettledIsTerminal ==
    [][(status = "CANCELLED" /\ player1 # player2) =>
        UNCHANGED <<status, depositAmount, startTime, confirmedOccurrences,
                    statusChangedEvents>>]_vars

\* C5 (as claimed): a withdraw made while INACTIVE fails, so the status of
\* a commitment of two distinct players never goes from INACTIVE to settled
\* directly.
C5_SettleRequiresActive ==
    [][(status = "INACTIVE" /\ player1 # player2) => status' # "CANCELLED"]_vars

\* C5 (amended): withdraw does not require an ACTIVE commitment.  While the
\* status is INACTIVE a withdraw by a participant whose payments are
\* accepted is not rejected; it applies no penalty, pays each participant
\* exactly the stored balance and moves the status to settled.
C5_InactiveWithdrawRefunds ==
    [][/\ status = "INACTIVE" =>
            \A s \in Players : withdrawErr(s, TRUE) = OK
       /\ (status = "INACTIVE" /\ status' = "CANCELLED") =>
            /\ \A a \in Players : PaidTo(transfers', a) = depositAmount[a]
            /\ \A a \in Addresses \ Players : PaidTo(transfers', a) = 0
            /\ \A a \in Addresses : depositAmount'[a] = 0
            /\ balance' = 0]_vars

\* a commitment withdrawn before it was ever activated: the initiator has
\* the stake back
C5_Witness ==
    /\ status = "CANCELLED"
    /\ Len(transfers) = 2
    /\ transfers[1].status = "INACTIVE"
    /\ startTime[player1] = NoTime
    /\ PaidTo(transfers, player1) = betAmount
    /\ player1 # player2

\* C6 (as claimed): a confirmation is recorded only while the status is
\* ACTIVE.
C6_ConfirmRequiresActive ==
    [][status # "ACTIVE" => confirmedOccurrences' = confirmedOccurrences]_vars

\* C7: start succeeds only from INACTIVE, called by player2 with a stake of
\* at least betAmount, which is the initiator's stake as long as the status
\* is INACTIVE; every other call of start is rejected.
C7_StartGuard ==
    [][/\ status = "INACTIVE" => depositAmount[player1] = betAmount
       /\ \A s \in Addresses, v \in Values :
            startOk(s, v) => (status = "INACTIVE" /\ s = player2 /\ v >= betAmount)
       /\ (status # "ACTIVE" /\ status' = "ACTIVE") =>
            /\ status = "INACTIVE"
            /\ depositAmount'[player2] - depositAmount[player2] >= betAmount
            /\ balance' - balance >= betAmount]_vars

\* an activation under the largest initiator stake (a smaller positive
\* stake was possible and is insufficient)
C7_Witness ==
    /\ status = "ACTIVE"
    /\ betAmount = MaxValue
    /\ depositAmount[player2] >= betAmount

\* C8: activation starts both schedules at the same instant.  The start
\* times are unset while the status is INACTIVE, a successful start sets
\* both to the activation instant and makes the status ACTIVE, and a start
\* time that is set never changes.
C8_StartTimes ==
    /\ [](status = "INACTIVE" =>
            \A a \in Players : startTime[a] = NoTime)
    /\ [](status = "ACTIVE" =>
            startTime[player1] # NoTime /\ startTime[player1] = startTime[player2])
    /\ [][/\ (status = "INACTIVE" /\ startTime' # startTime) =>
                /\ status' = "ACTIVE"
                /\ \A a \in Players : startTime'[a] = now
          /\ \A a \in Addresses :
                startTime[a] # NoTime => startTime'[a] = startTime[a]]_vars

\* an activation after creation, seen later: both start times are the
\* activation instant
C8_Witness ==
    /\ status = "ACTIVE"
    /\ startTime[player1] > 0
    /\ startTime[player2] = startTime[player1]
    /\ now > startTime[player1]

\* C9 (as claimed): addToBalance(player) credits the participant named in
\* the call with exactly the amount sent and changes no other balance,
\* whoever of the two calls it.
C9_TopUpCreditsNamedPlayer ==
    [][\A s \in Addresses, p \in Addresses, v \in TopUps :
          addToBalanceOk(s, p, v) =>
            /\ depositAmount'[p] = depositAmount[p] + v
            /\ \A a \in Addresses \ {p} : depositAmount'[a] = depositAmount[a]]_vars

\* C10 (as claimed): every external transfer of a settlement runs with the
\* state finalized: both balances are zero and the status is no longer
\* ACTIVE, so that the recipient observes a settled commitment.
C10_FinalizedBeforeTransfer ==
    \A i \in 1..Len(transfers) :
        /\ transfers[i].status # "ACTIVE"
        /\ transfers[i].stored = 0

\* C11: idempotent confirmation.  A confirmation is accepted only while
\* exactly one window is open, and a step that changes a player's confirmed
\* set adds that one open occurrence and nothing else, raising
\* numConfirmations by exactly 1; the set only grows and never holds more
\* than the windows opened since the start, so the accepted confirmations
\* of one window count once however often they are repeated.
C11_IdempotentConfirmation ==
    /\ [](\A a \in Players :
            /\ numConfirmations(a) <=
                 Cardinality({d \in occurrencesSince(a) : occurrenceOpen(d) <= now})
            /\ submitConfirmationErr(a) = OK =>
                 Cardinality(openOccurrences(a, now)) = 1)
    /\ [][\A a \in Addresses :
            /\ confirmedOccurrences[a] \subseteq confirmedOccurrences'[a]
            /\ confirmedOccurrences'[a] # confirmedOccurrences[a] =>
                 /\ confirmedOccurrences'[a]
                      = confirmedOccurrences[a] \cup openOccurrences(a, now)
                 /\ numConfirmations(a)' = numConfirmations(a) + 1]_vars

\* a window that is still open and already confirmed, after an earlier
\* window went by: a further confirmation is accepted and adds nothing
C11_Witness ==
    /\ status = "ACTIVE"
    /\ submitConfirmationErr(player1) = OK
    /\ openOccurrences(player1, now) \subseteq confirmedOccurrences[player1]
    /\ numConfirmations(player1) = 1
    /\ Cardinality({d \in occurrencesSince(player1) : occurrenceOpen(d) <= now}) = 2

\* C12: missed-count monotonicity.  Along confirmations and the passage of
\* time the missed count of a player never decreases (a step that leaves
\* the pattern, the schedules and the clock alone cannot change a count),
\* and for the schedule as it stands the count at an instant is never
\* larger than at the next.
C12_MissedMonotone ==
    /\ [](\A a \in Players : \A t \in 0..(MaxTime - 1) :
            missedCount(a, t) <= missedCount(a, t + 1))
    /\ [][\/ UNCHANGED <<params, schedules, now>>
          \/ \A a \in Players : missedDeadlines(a)' >= missedDeadlines(a)]_vars

\* a player who confirmed one window and missed the next while time went on
C12_Witness ==
    /\ startTime[player1] # NoTime
    /\ numConfirmations(player1) = 1
    /\ missedDeadlines(player1) = 1
    /\ now > startTime[player1]

\* the reference count of section 4.2: occurrences of the started schedule
\* that closed strictly before the instant and have no confirmation
ReferenceMissed(a, at) ==
    Cardinality({d \in Days : /\ startTime[a] # NoTime
                              /\ Weekday(d) \in alarmActiveDays
                              /\ startTime[a] <= d * DayLen + alarmTime - timezoneOffset
                              /\ d * DayLen + alarmTime - timezoneOffset + 1 <= at}
                \ confirmedOccurrences[a])

\* C13: only closed, unconfirmed occurrences are missed.  The missed count
\* is the number of unconfirmed occurrences that closed strictly before
\* now; while the first window of a schedule is open the count is 0, and
\* a step that records a confirmation of a player leaves that player's
\* count as it is.
C13_OpenNeverMissed ==
    /\ [](\A a \in Players :
            /\ missedDeadlines(a) = ReferenceMissed(a, now)
            /\ (\E d \in openOccurrences(a, now) :
                    \A e \in occurrencesSince(a) : e >= d)
                 => missedDeadlines(a) = 0)
    /\ [][\A a \in Players :
            confirmedOccurrences'[a] # confirmedOccurrences[a] =>
                missedDeadlines(a)' = missedDeadlines(a)]_vars

\* the scenario of the specification, scaled: started at the open instant
\* of the first window [0, 1]; past its close, at 2, the player without a
\* confirmation has missed 1 and the other none, and the window that is
\* open at 2 counts for neither
C13_Witness ==
    /\ status = "ACTIVE"
    /\ startTime[player1] = 0
    /\ now = 2
    /\ openOccurrences(player1, now) # {}
    /\ confirmedOccurrences[player1] = {}
    /\ missedDeadlines(player1) = 1
    /\ confirmedOccurrences[player2] = {0}
    /\ missedDeadlines(player2) = 0

\* C15: two distinct participants.  A commitment never has the same
\* identity as initiator and as counterparty.
C15_DistinctParticipants == player1 # player2

\* C16: only the two participants can act.  In every status, start,
\* addToBalance, submitConfirmation and withdraw called by an identity that
\* is neither player are rejected, whatever value and arguments come with
\* the call, and no step of the commitment is the accepted call of such an
\* identity.
C16_OnlyPlayers ==
    /\ [](\A s \in Addresses \ Players :
            /\ \A v \in Values : startErr(s, v) # OK
            /\ \A p \in Addresses, v \in TopUps : addToBalanceErr(s, p, v) # OK
            /\ submitConfirmationErr(s) # OK
            /\ \A accepted \in BOOLEAN : withdrawErr(s, accepted) # OK)
    /\ [][\A s \in Addresses \ Players :
            /\ \A v \in Values : ~startOk(s, v)
            /\ \A p \in Addresses, v \in TopUps : ~addToBalanceOk(s, p, v)
            /\ ~submitConfirmationOk(s)
            /\ \A accepted \in BOOLEAN : ~withdrawOk(s, accepted)]_vars

\* an active commitment with an open window in which each call of a player
\* would be accepted and the same call of the outsider a3 is rejected for
\* the caller
C16_Witness ==
    /\ status = "ACTIVE"
    /\ "a3" \notin Players
    /\ submitConfirmationErr(player1) = OK
    /\ submitConfirmationErr("a3") = "ONLY_PLAYER_ACTION"
    /\ addToBalanceErr(player2, player2, 1) = OK
    /\ addToBalanceErr("a3", player2, 1) = "ONLY_PLAYER_ACTION"
    /\ withdrawErr(player1, TRUE) = OK
    /\ withdrawErr("a3", TRUE) = "ONLY_PLAYER_ACTION"

\* the stored balances of the participants, each identity counted once
StoredTotal ==
    depositAmount[player1] + (IF player2 = player1 THEN 0 ELSE depositAmount[player2])

\* C18: fund conservation.  After any sequence of completed calls the value
\* the contract holds equals the sum of the participants' stored balances
\* and no other identity has a stored balance; so in an ACTIVE commitment
\* the remainder paid to the caller of withdraw is the caller's balance
\* minus the caller's penalty plus the other's penalty.
C18_FundConservation ==
    /\ balance = StoredTotal
    /\ \A a \in Addresses \ Players : depositAmount[a] = 0
    /\ (status = "ACTIVE" /\ player1 # player2) =>
         \A s \in Players :
            senderWithdrawAmount(s) =
                depositAmount[s] - ReferencePenalty(s)
                    + ReferencePenalty(otherPlayerOf(s))

\* an active commitment whose counterparty sent more than the bet and whose
\* initiator topped up, with penalties due on one side
C18_Witness ==
    /\ status = "ACTIVE"
    /\ depositAmount[player2] > betAmount
    /\ depositAmount[player1] > betAmount
    /\ balance = depositAmount[player1] + depositAmount[player2]
    /\ ReferencePenalty(player1) > 0
    /\ ReferencePenalty(player2) = 0

\* C19: settlement is independent of who triggers it.  From one ACTIVE
\* state each participant is paid the same amount whether that participant
\* or the other one calls withdraw, and every settlement pays each
\* participant what the other's call would have paid.
C19_CallerIndependent ==
    /\ []((status = "ACTIVE" /\ player1 # player2) =>
            \A a \in Players :
                senderWithdrawAmount(a) = otherPlayerWithdrawAmount(otherPlayerOf(a)))
    /\ [][Settles =>
            \A a \in Players :
                /\ (a = transfers'[2].to) =>
                     PaidTo(transfers', a) = otherPlayerWithdrawAmount(otherPlayerOf(a))
                /\ (a = transfers'[1].to) =>
                     PaidTo(transfers', a) = senderWithdrawAmount(a)]_vars

\* an active commitment where either participant may call withdraw, the
\* penalties differ and so do the two payouts
C19_Witness ==
    /\ status = "ACTIVE"
    /\ withdrawErr(player1, TRUE) = OK
    /\ withdrawErr(player2, TRUE) = OK
    /\ senderPenalty(player1) # senderPenalty(player2)
    /\ senderWithdrawAmount(player1) # senderWithdrawAmount(player2)
    /\ senderWithdrawAmount(player1) = otherPlayerWithdrawAmount(player2)

\* C20: a compliant participant never loses stake.  A participant with no
\* missed deadline at settlement is paid at least the own stored balance,
\* whoever calls withdraw.
C20_CompliantKeepsStake ==
    [][Settles =>
        \A a \in Players :
            missedDeadlines(a) = 0 => PaidTo(transfers', a) >= depositAmount[a]]_vars

\* a settlement called by the participant who missed: the compliant other
\* participant was paid first and got more than the caller
C20_Witness ==
    /\ Len(transfers) = 2
    /\ transfers[1].status = "ACTIVE"
    /\ missedDeadlines(transfers[1].to) = 0
    /\ missedDeadlines(transfers[2].to) > 0
    /\ transfers[1].amount > transfers[2].amount

\* the address a text denotes: addresses do not depend on the case of the
\* hexadecimal digits
addressOf(text) == IF text = "0xA1" THEN "0xa1" ELSE text

\* the readiness conditions of the client, on the form as it stands
ReadyToCreate ==
    LET p == bundledParams
    IN  /\ p.account # ""
        /\ p.submissionWindow > 0
        /\ addressOf(p.otherPlayer) # addressOf(p.account)
        /\ p.alarmDays # <<>>
        /\ \A i \in DOMAIN p.alarmDays : p.alarmDays[i] \in 1..7
        /\ p.alarmTime # <<>>
        /\ p.deposit > 0
        /\ p.missedAlarmPenalty > 0
        /\ p.timezoneOffsetConfirmed
        /\ p.timezoneOffset \in -12..12

\* C17: the client submits only when ready.  Whenever createAlarm sends a
\* creation request to the hub, at that moment an account is connected, the
\* submission window, the deposit and the penalty are positive, the
\* counterparty is not the own address, the alarm days are non-empty and
\* within 1..7, the alarm time is non-empty and the timezone offset is
\* confirmed and within -12..12; and no request ever names its sender as
\* the counterparty.
C17_SubmitsOnlyWhenReady ==
    /\ [](\A i \in 1..Len(requests) :
            addressOf(requests[i].otherPlayer) # addressOf(requests[i].sender))
    /\ [][requests' # requests => ReadyToCreate]_vars

=============================================================================
